---- MODULE Spec2Model ----
(***************************************************************************)
(* Model of cfg/get_config.py: the Result container, the file-based lookup *)
(* strategy, the three source adapters and the get_config dispatcher.      *)
(*                                                                         *)
(* A Python str is a sequence of tokens (TLA+ strings); "\n" is a token.   *)
(* A Python value is a record [t, v]: t is its type, v its text.           *)
(*                                                                         *)
(* The bodies of the functions are modelled.  The annotations of lines     *)
(* 24, 25 and 74 (TypeVar['T'], a Union of tuples), which the interpreter  *)
(* rejects when the module is loaded, are not part of the model.           *)
(***************************************************************************)
EXTENDS Integers, Sequences, FiniteSets, TLC

VARIABLES application, section, item, priority, env, fs,
          pc, prio, idx, adapter, calls,
          file_name, attempt, dirIdx, errors, reads, caught,
          result, results, outcome,
          causes, rpc, rout

vars == <<application, section, item, priority, env, fs,
          pc, prio, idx, adapter, calls,
          file_name, attempt, dirIdx, errors, reads, caught,
          result, results, outcome,
          causes, rpc, rout>>

inputVars == <<application, section, item, priority, env, fs>>
findVars == <<file_name, attempt, dirIdx, errors, reads, caught>>
resultVars == <<causes, rpc, rout>>

----------------------------------------------------------------------------
(* Bounds *)

\* depth at which the interpreter gives up a runaway recursion
RecursionLimit == 3

\* longest argument list handed to Result.error
MaxCauses == 3

----------------------------------------------------------------------------
(* Python values *)

Str(s) == [t |-> "str", v |-> s]
PyNone == [t |-> "None", v |-> <<>>]
\* marks a key that a mapping (os.environ, a parsed file) does not hold
Missing == [t |-> "missing", v |-> <<>>]

\* bool(x) for the values configuration sources hold
Truthy(x) == x.t = "str" /\ x.v # <<>>

Exc(cls, msg) == [kind |-> "exc", cls |-> cls, msg |-> msg]
NoExc == Exc("", <<>>)

\* str.upper() on the letters the model uses
LowerLetters == <<"a", "k", "s">>
UpperLetters == <<"A", "K", "S">>
UpperChar(c) ==
    IF \E i \in 1..Len(LowerLetters) : LowerLetters[i] = c
    THEN UpperLetters[CHOOSE i \in 1..Len(LowerLetters) : LowerLetters[i] = c]
    ELSE c
Upper(s) == [i \in 1..Len(s) |-> UpperChar(s[i])]

\* sep.join(parts)
RECURSIVE Join(_, _)
Join(sep, parts) ==
    IF parts = <<>> THEN <<>>
    ELSE IF Len(parts) = 1 THEN parts[1]
    ELSE parts[1] \o sep \o Join(sep, Tail(parts))

----------------------------------------------------------------------------
(* class Result *)

ErrNone == [isNone |-> TRUE, items |-> <<>>]
ErrList(l) == [isNone |-> FALSE, items |-> l]

\* Result.__init__(status, contents)
Result(status, contents) ==
    IF status = "ok"
    THEN [kind |-> "Result", ok |-> contents, err |-> ErrNone]
    ELSE [kind |-> "Result", ok |-> PyNone, err |-> ErrList(contents)]

NoResult == [kind |-> "none", ok |-> PyNone, err |-> ErrNone]

\* Result.ok(result)
ResultOk(payload) == Result("ok", payload)

\* Result.status_and_value()
StatusAndValue(r) ==
    IF Truthy(r.ok)
    THEN [status |-> "ok", value |-> r.ok, errs |-> ErrNone]
    ELSE [status |-> "error", value |-> PyNone, errs |-> r.err]

\* Result.is_ok()
IsOk(r) == Truthy(r.ok)

\* Result.is_err()
IsErr(r) == ~r.err.isNone /\ r.err.items # <<>>

RecursionError == Exc("RecursionError", <<"maximum recursion depth exceeded">>)

\* what a call of Result.error yields: a Result or a raised exception,
\* and the Results constructed on the way
Returned(r, made) == [raised |-> FALSE, exc |-> NoExc, value |-> r, made |-> made \cup {r}]
Raised(e, made) == [raised |-> TRUE, exc |-> e, value |-> NoResult, made |-> made]

\* Result.error(*errors), called with depth frames of it already on the stack
RECURSIVE ResultErrorAt(_, _)
RECURSIVE ResultErrorLoop(_, _, _, _, _)
ResultErrorLoop(errs, i, errors_, made, depth) ==
    IF i > Len(errs) THEN Returned(Result("error", errors_), made)
    ELSE IF errs[i].kind = "exc"
         THEN LET inner == ResultErrorAt(<<errs[i]>>, depth + 1) IN
              IF inner.raised THEN Raised(inner.exc, made \cup inner.made)
              ELSE ResultErrorLoop(errs, i + 1, Append(errors_, inner.value),
                                   made \cup inner.made, depth)
         ELSE IF errs[i].kind = "Result"
              THEN ResultErrorLoop(errs, i + 1, errors_, made, depth)
              ELSE Raised(Exc("AssertionError",
                              <<"Expected either an Exception or Result type.">>), made)
ResultErrorAt(errs, depth) ==
    IF depth > RecursionLimit THEN Raised(RecursionError, {})
    ELSE ResultErrorLoop(errs, 1, <<>>, {}, depth)

ResultError(errs) == ResultErrorAt(errs, 1)

----------------------------------------------------------------------------
(* class ConfigItemNotFound *)

Header == <<"Config item not found due to the following errors:">>

\* str(error) for the members of an error list
StrOf(x) == IF x.kind = "exc" THEN x.msg ELSE <<"<Result object>">>

ConfigItemNotFoundNoCauses(err_result) ==
    LET sv == StatusAndValue(err_result) IN
    IF sv.status # "error" THEN Exc("AssertionError", <<>>)
    ELSE IF sv.errs.isNone
         THEN Exc("TypeError", <<"'NoneType' object is not iterable">>)
         ELSE Exc("ConfigItemNotFound", Header \o <<"\n">>)

\* the exception that `raise ConfigItemNotFound(err_result)` raises
ConfigItemNotFound(err_result) ==
    LET sv == StatusAndValue(err_result) IN
    IF sv.status # "error" THEN Exc("AssertionError", <<>>)
    ELSE IF sv.errs.isNone
         THEN Exc("TypeError", <<"'NoneType' object is not iterable">>)
         ELSE Exc("ConfigItemNotFound",
                  Header \o <<"\n">> \o
                  Join(<<"\n">>, [i \in 1..Len(sv.errs.items) |-> StrOf(sv.errs.items[i])]))

----------------------------------------------------------------------------
(* Inputs of one get_config call, the process environment and the files *)

Applications == {<<"a">>}
Sections == {<<"s">>}
Items == {<<"k">>}

SourceNames == {"env variable", ".env file", "config file"}
DefaultPriority == <<"env variable", ".env file", "config file">>

\* the priority argument: None, or a list of source names
PriorityNone == [isNone |-> TRUE, list |-> <<>>]
PriorityList(l) == [isNone |-> FALSE, list |-> l]
Priorities ==
    {PriorityNone} \cup
    {PriorityList(l) : l \in {<<>>} \cup [1..1 -> SourceNames] \cup [1..2 -> SourceNames]}

\* `not priority`
NotPriority(p) == p.isNone \/ p.list = <<>>

\* the sources a call with this priority argument names
Named(p) == IF NotPriority(p) THEN SourceNames ELSE {p.list[i] : i \in 1..Len(p.list)}

Cwd == <<"cwd">>
Home == <<"home">>

\* os.path.join(a, b)
PathJoin(a, b) == a \o <<"/">> \o b

\* os.path.join(os.getcwd(), 'config') and os.path.join(home, 'config')
CwdConfig == PathJoin(Cwd, <<"config">>)
HomeConfig == PathJoin(Home, <<"config">>)

DirectoriesHomeFirst == <<HomeConfig, CwdConfig>>

\* directories of __find_in_files
Directories == <<CwdConfig, HomeConfig>>

\* full_path of __find_in_files
FullPath(directory, app, fname) == PathJoin(PathJoin(directory, app), fname)

\* make_file_name of the three lookups
TomlFileName(app, sec, obj) == sec \o <<".toml">>
DotenvFileName(app, sec, obj) == <<".env.">> \o sec
GenericFileName(app, sec, obj) == <<".env">>

\* f'{application.upper()}_{section.upper()}_{item.upper()}'
EnvVariableName(app, sec, obj) == Upper(app) \o <<"_">> \o Upper(sec) \o <<"_">> \o Upper(obj)

\* the name get_config looks up, and the same name as the caller wrote it
UpperName == <<"A", "_", "S", "_", "K">>
WrittenName == <<"a", "_", "s", "_", "k">>
EnvKeys == {UpperName, WrittenName}
EnvValues == {Str(<<"5432">>), Str(<<>>)}

\* os.environ: each name unset or set to a string
Environments(p) ==
    IF "env variable" \in Named(p)
    THEN {e \in [EnvKeys -> EnvValues \cup {Str(<<"1111">>), Missing}] :
             /\ e[UpperName] # Str(<<"1111">>)
             /\ e[WrittenName] \in {Str(<<"1111">>), Missing}}
    ELSE {[n \in EnvKeys |-> Missing]}

\* name in os.environ, os.environ[name]
InEnv(e, name) == name \in DOMAIN e /\ e[name] # Missing

\* keys a configuration file may define
FileKeys == {<<"k">>}
Unreadable == [raises |-> TRUE, data |-> [k \in FileKeys |-> Missing]]
Data(v) == [raises |-> FALSE, data |-> [k \in FileKeys |-> v]]

\* what reading a candidate does: raise, or return a mapping
Contents(directory) ==
    IF directory = CwdConfig
    THEN {Unreadable, Data(Missing), Data(Str(<<"8080">>)), Data(Str(<<>>))}
    ELSE {Unreadable, Data(Missing), Data(Str(<<"9090">>))}

\* item in data
InData(obj, data) == obj \in DOMAIN data /\ data[obj] # Missing

FileNames(app, sec) ==
    {TomlFileName(app, sec, <<>>), DotenvFileName(app, sec, <<>>), GenericFileName(app, sec, <<>>)}

\* the source that reads a file of this name
Reader(app, sec, fname) ==
    IF fname = TomlFileName(app, sec, <<>>) THEN "config file" ELSE ".env file"

\* the files under the two candidate directories, keyed by full path; files
\* of a source the call does not name are left unreadable
FileSystems(app, sec, p) ==
    LET toml == TomlFileName(app, sec, <<>>)
        dotenv == DotenvFileName(app, sec, <<>>)
        generic == GenericFileName(app, sec, <<>>)
        allowed(d, f) == IF Reader(app, sec, f) \in Named(p)
                         THEN Contents(d) ELSE {Unreadable}
        path(d, f) == FullPath(d, app, f)
    IN {[x \in {path(d, f) : d \in {CwdConfig, HomeConfig}, f \in FileNames(app, sec)} |->
            CASE x = path(CwdConfig, toml) -> t1 [] x = path(HomeConfig, toml) -> t2
              [] x = path(CwdConfig, dotenv) -> d1 [] x = path(HomeConfig, dotenv) -> d2
              [] x = path(CwdConfig, generic) -> g1 [] x = path(HomeConfig, generic) -> g2] :
          t1 \in allowed(CwdConfig, toml), t2 \in allowed(HomeConfig, toml),
          d1 \in allowed(CwdConfig, dotenv), d2 \in allowed(HomeConfig, dotenv),
          g1 \in allowed(CwdConfig, generic), g2 \in allowed(HomeConfig, generic)}

ReadError(path) == Exc("OSError", <<"cannot read ">> \o path)
KeyError(name) == Exc("KeyError", <<"'">> \o name \o <<"'">>)

----------------------------------------------------------------------------
(* Outcome of a call *)

NoOutcome == [kind |-> "none", value |-> PyNone, exc |-> NoExc]
Return(v) == [kind |-> "return", value |-> v, exc |-> NoExc]
Raise(e) == [kind |-> "raise", value |-> PyNone, exc |-> e]

IdleResult == [raised |-> FALSE, exc |-> NoExc, value |-> NoResult, made |-> {}]

Init ==
    /\ application \in Applications
    /\ section \in Sections
    /\ item \in Items
    /\ priority \in Priorities
    /\ env \in Environments(priority)
    /\ fs \in FileSystems(application, section, priority)
    /\ pc = "start"
    /\ prio = <<>>
    /\ idx = 1
    /\ adapter = ""
    /\ calls = <<>>
    /\ file_name = <<>>
    /\ attempt = 0
    /\ dirIdx = 1
    /\ errors = <<>>
    /\ reads = <<>>
    /\ caught = <<>>
    /\ result = NoResult
    /\ results = {}
    /\ outcome = NoOutcome
    /\ causes = <<>>
    /\ rpc = "idle"
    /\ rout = IdleResult

----------------------------------------------------------------------------
(* get_config *)

\* get_config, up to its loop: the default priority
GetConfig ==
    /\ pc = "start"
    /\ prio' = IF NotPriority(priority) THEN DefaultPriority ELSE priority.list
    /\ idx' = 1
    /\ pc' = "loop"
    /\ UNCHANGED <<inputVars, adapter, calls, findVars, result, results, outcome, resultVars>>

\* pc of the adapter dispatch[p]
Entry(p) ==
    CASE p = "env variable" -> "env"
      [] p = ".env file" -> "dotenv"
      [] p = "config file" -> "toml"

\* one turn of `for p in priority`: call dispatch[p]
Dispatch ==
    /\ pc = "loop"
    /\ IF idx <= Len(prio)
       THEN /\ adapter' = prio[idx]
            /\ calls' = Append(calls, prio[idx])
            /\ pc' = Entry(prio[idx])
            /\ UNCHANGED outcome
       ELSE /\ outcome' = Return(PyNone)
            /\ pc' = "done"
            /\ UNCHANGED <<adapter, calls>>
    /\ UNCHANGED <<inputVars, prio, idx, findVars, result, results, resultVars>>

\* __get_config_from_env
GetConfigFromEnv ==
    /\ pc = "env"
    /\ LET env_variable_name == EnvVariableName(application, section, item)
           r == IF InEnv(env, env_variable_name)
                THEN Result("ok", env[env_variable_name])
                ELSE Result("error", <<KeyError(env_variable_name)>>)
       IN /\ result' = r
          /\ results' = results \cup {r}
          /\ caught' = IF InEnv(env, env_variable_name) THEN <<>>
                       ELSE <<KeyError(env_variable_name)>>
    /\ pc' = "inspect"
    /\ UNCHANGED <<inputVars, prio, idx, adapter, calls,
                   file_name, attempt, dirIdx, errors, reads, outcome, resultVars>>

\* entry of __find_in_files with the file name make_file_name gives
FindInFiles(fname, att) ==
    /\ file_name' = fname
    /\ attempt' = att
    /\ dirIdx' = 1
    /\ errors' = <<>>
    /\ caught' = <<>>
    /\ pc' = "find"

\* __get_config_from_toml
GetConfigFromToml ==
    /\ pc = "toml"
    /\ FindInFiles(TomlFileName(application, section, item), 0)
    /\ UNCHANGED <<inputVars, prio, idx, adapter, calls, reads, result, results,
                   outcome, resultVars>>

\* __get_config_from_dotenv, first attempt
GetConfigFromDotenv ==
    /\ pc = "dotenv"
    /\ FindInFiles(DotenvFileName(application, section, item), 1)
    /\ UNCHANGED <<inputVars, prio, idx, adapter, calls, reads, result, results,
                   outcome, resultVars>>

\* where __find_in_files returns to
AfterFind == IF attempt = 1 THEN "dotenv_check" ELSE "inspect"

\* __find_in_files, one candidate directory
FindInFilesTry ==
    /\ pc = "find"
    /\ dirIdx <= Len(Directories)
    /\ LET full_path == FullPath(Directories[dirIdx], application, file_name)
           file == fs[full_path]
       IN /\ reads' = Append(reads, full_path)
          /\ IF file.raises
             THEN LET e == ReadError(full_path)
                      wrapped == ResultError(<<e>>)
                  IN /\ caught' = Append(caught, e)
                     /\ results' = results \cup wrapped.made
                     /\ IF wrapped.raised
                        THEN /\ outcome' = Raise(wrapped.exc)
                             /\ pc' = "done"
                             /\ UNCHANGED <<errors, dirIdx, result>>
                        ELSE /\ errors' = Append(errors, wrapped.value)
                             /\ dirIdx' = dirIdx + 1
                             /\ UNCHANGED <<pc, outcome, result>>
             ELSE IF InData(item, file.data)
                  THEN /\ result' = ResultOk(file.data[item])
                       /\ results' = results \cup {ResultOk(file.data[item])}
                       /\ pc' = AfterFind
                       /\ UNCHANGED <<caught, errors, dirIdx, outcome>>
                  ELSE /\ dirIdx' = dirIdx + 1
                       /\ UNCHANGED <<caught, errors, results, result, pc, outcome>>
    /\ UNCHANGED <<inputVars, prio, idx, adapter, calls, file_name, attempt, resultVars>>

\* __find_in_files, after the last candidate
FindInFilesFail ==
    /\ pc = "find"
    /\ dirIdx > Len(Directories)
    /\ result' = Result("error", errors)
    /\ results' = results \cup {Result("error", errors)}
    /\ pc' = AfterFind
    /\ UNCHANGED <<inputVars, prio, idx, adapter, calls, findVars, outcome, resultVars>>

\* __get_config_from_dotenv, after the first attempt
DotenvSecondAttempt ==
    /\ pc = "dotenv_check"
    /\ IF IsOk(result)
       THEN /\ pc' = "inspect"
            /\ UNCHANGED <<findVars, result>>
       ELSE /\ FindInFiles(GenericFileName(application, section, item), 2)
            /\ result' = NoResult
            /\ UNCHANGED reads
    /\ UNCHANGED <<inputVars, prio, idx, adapter, calls, results, outcome, resultVars>>

InspectFallThrough ==
    /\ pc = "inspect"
    /\ LET sv == StatusAndValue(result) IN
       IF sv.status = "ok"
       THEN /\ outcome' = Return(sv.value)
            /\ pc' = "done"
            /\ UNCHANGED idx
       ELSE IF idx < Len(prio)
            THEN /\ idx' = idx + 1
                 /\ pc' = "loop"
                 /\ UNCHANGED outcome
            ELSE /\ outcome' = Raise(ConfigItemNotFound(result))
                 /\ pc' = "done"
                 /\ UNCHANGED idx
    /\ UNCHANGED <<inputVars, prio, adapter, calls, findVars, result, results, resultVars>>

\* get_config, after the adapter returned
Inspect ==
    /\ pc = "inspect"
    /\ LET sv == StatusAndValue(result) IN
       outcome' = IF sv.status = "ok" THEN Return(sv.value)
                  ELSE Raise(ConfigItemNotFound(result))
    /\ pc' = "done"
    /\ UNCHANGED <<inputVars, prio, idx, adapter, calls, findVars, result, results, resultVars>>

Next ==
    \/ GetConfig
    \/ Dispatch
    \/ GetConfigFromEnv
    \/ GetConfigFromToml
    \/ GetConfigFromDotenv
    \/ FindInFilesTry
    \/ FindInFilesFail
    \/ DotenvSecondAttempt
    \/ Inspect

Spec == Init /\ [][Next]_vars

----------------------------------------------------------------------------
(* Result.error called on its own *)

SomeErrors == {Exc("ValueError", <<"bad value">>), KeyError(UpperName)}
ErrorResults == {Result("error", <<>>), Result("error", <<KeyError(UpperName)>>)}

\* argument lists of Result.error
CauseLists == UNION {[1..n -> SomeErrors \cup ErrorResults] : n \in 0..MaxCauses}

InitResult ==
    /\ application = <<"a">>
    /\ section = <<"s">>
    /\ item = <<"k">>
    /\ priority = PriorityNone
    /\ env = [n \in EnvKeys |-> Missing]
    /\ fs \in FileSystems(application, section, PriorityList(<<"env variable">>))
    /\ pc = "idle"
    /\ prio = <<>>
    /\ idx = 1
    /\ adapter = ""
    /\ calls = <<>>
    /\ file_name = <<>>
    /\ attempt = 0
    /\ dirIdx = 1
    /\ errors = <<>>
    /\ reads = <<>>
    /\ caught = <<>>
    /\ result = NoResult
    /\ results = {}
    /\ outcome = NoOutcome
    /\ causes \in CauseLists
    /\ rpc = "call"
    /\ rout = IdleResult

\* Result.error(*causes)
ResultErrorCall ==
    /\ rpc = "call"
    /\ rout' = ResultError(causes)
    /\ rpc' = "done"
    /\ UNCHANGED <<inputVars, pc, prio, idx, adapter, calls, findVars,
                   result, results, outcome, causes>>

NextResult == ResultErrorCall

SpecResult == InitResult /\ [][NextResult]_vars

----------------------------------------------------------------------------
(* Properties *)

\* the source get_config turns to first
FirstSource == IF NotPriority(priority) THEN "env variable" ELSE priority.list[1]

TomlPath(d) == FullPath(d, application, TomlFileName(application, section, item))
DotenvPath(d) == FullPath(d, application, DotenvFileName(application, section, item))
GenericPath(d) == FullPath(d, application, GenericFileName(application, section, item))

\* the file at this path can be read and holds the item
Defines(path) == ~fs[path].raises /\ InData(item, fs[path].data)

NotFoundRaised == outcome.kind = "raise" /\ outcome.exc.cls = "ConfigItemNotFound"

\* s.split("\n")
RECURSIVE SplitLines(_)
SplitLines(s) ==
    IF \A i \in 1..Len(s) : s[i] # "\n" THEN <<s>>
    ELSE LET n == CHOOSE i \in 1..Len(s) : s[i] = "\n" /\ \A j \in 1..(i - 1) : s[j] # "\n"
         IN <<SubSeq(s, 1, n - 1)>> \o SplitLines(SubSeq(s, n + 1, Len(s)))

\* C1: when the variable UPPER(application)_UPPER(section)_UPPER(item) is set
\* and "env variable" is the first source, get_config returns exactly the
\* variable's value, the empty string included.
C1_EnvValueReturned ==
    (/\ pc = "done"
     /\ FirstSource = "env variable"
     /\ InEnv(env, Upper(application) \o <<"_">> \o Upper(section) \o <<"_">> \o Upper(item)))
    => outcome = Return(env[Upper(application) \o <<"_">> \o Upper(section)
                            \o <<"_">> \o Upper(item)])

\* the first source has nothing to give: the variable is unset, or no
\* candidate file can be read and holds the item
FirstSourceFails ==
    CASE FirstSource = "env variable" ->
            ~InEnv(env, EnvVariableName(application, section, item))
      [] FirstSource = "config file" ->
            ~Defines(TomlPath(CwdConfig)) /\ ~Defines(TomlPath(HomeConfig))
      [] FirstSource = ".env file" ->
            /\ ~Defines(DotenvPath(CwdConfig)) /\ ~Defines(DotenvPath(HomeConfig))
            /\ ~Defines(GenericPath(CwdConfig)) /\ ~Defines(GenericPath(HomeConfig))

\* C2: when the first source of priority does not produce a success,
\* get_config raises ConfigItemNotFound, whatever the later sources hold.
C2_FirstFailureRaisesNotFound ==
    (pc = "done" /\ FirstSourceFails) => NotFoundRaised

C4_CwdTakesPrecedence ==
    (adapter = "config file" /\ pc \in {"inspect", "done"}) =>
       /\ (Defines(TomlPath(CwdConfig)) /\ Defines(TomlPath(HomeConfig)))
             => /\ result = ResultOk(fs[TomlPath(CwdConfig)].data[item])
                /\ reads = <<TomlPath(CwdConfig)>>
       /\ (/\ Defines(TomlPath(HomeConfig))
           /\ result = ResultOk(fs[TomlPath(HomeConfig)].data[item]))
             => ~Defines(TomlPath(CwdConfig))

C4_Witness ==
    /\ adapter = "config file"
    /\ pc = "inspect"
    /\ Defines(TomlPath(CwdConfig))
    /\ Defines(TomlPath(HomeConfig))
    /\ fs[TomlPath(CwdConfig)].data[item] # fs[TomlPath(HomeConfig)].data[item]
    /\ result = ResultOk(fs[TomlPath(CwdConfig)].data[item])

\* C5: in the dotenv adapter, when a .env.<section> candidate holds the item,
\* whatever its value, the generic .env file is never read.
C5_GenericNeverConsulted ==
    (/\ adapter = ".env file"
     /\ Defines(DotenvPath(CwdConfig)) \/ Defines(DotenvPath(HomeConfig)))
    => \A i \in 1..Len(reads) :
          reads[i] \notin {GenericPath(CwdConfig), GenericPath(HomeConfig)}

\* C6: when get_config raises ConfigItemNotFound, the lines of the message
\* after the heading are the string forms of the errors the failing adapter
\* caught, one per line, in the order it caught them.
C6_MessageListsErrors ==
    (pc = "done" /\ NotFoundRaised) =>
       LET lines == SplitLines(outcome.exc.msg) IN
       /\ lines[1] = Header
       /\ Len(lines) >= 1 + Len(caught)
       /\ \A i \in 1..Len(caught) : lines[i + 1] = StrOf(caught[i])

C6_Witness ==
    /\ pc = "done"
    /\ NotFoundRaised
    /\ caught # <<>>

\* C7: every Result constructed holds exactly one of a payload and a
\* non-empty sequence of errors.
C7_ResultsWellFormed ==
    \A r \in results :
       (r.ok # PyNone) # (~r.err.isNone /\ r.err.items # <<>>)

\* C8: a call of get_config returns a value or raises ConfigItemNotFound;
\* no other exception reaches the caller.
C8_OnlyNotFoundRaised ==
    pc = "done" => (outcome.kind = "return" \/ NotFoundRaised)

\* C9: Result.error(*causes) returns an error-tagged Result with one entry
\* per cause in argument order: an exception wrapped into a singleton
\* error-Result, an error-tagged Result as given.
C9_ErrorKeepsEveryCause ==
    rpc = "done" =>
       /\ ~rout.raised
       /\ ~rout.value.err.isNone
       /\ Len(rout.value.err.items) = Len(causes)
       /\ \A i \in 1..Len(causes) :
             rout.value.err.items[i] =
                IF causes[i].kind = "exc" THEN Result("error", <<causes[i]>>)
                ELSE causes[i]

\* C10: in the "config file" lookup, when reading the cwd candidate raises,
\* the home candidate is read next: the lookup gives the home value when
\* the home file holds the item, and otherwise an error-Result whose errors
\* start with the cwd failure.
C10_CwdFailureContinues ==
    (/\ adapter = "config file"
     /\ pc \in {"inspect", "done"}
     /\ fs[TomlPath(CwdConfig)].raises)
    => /\ reads = <<TomlPath(CwdConfig), TomlPath(HomeConfig)>>
       /\ result.kind = "Result"
       /\ IF Defines(TomlPath(HomeConfig))
          THEN result = ResultOk(fs[TomlPath(HomeConfig)].data[item])
          ELSE /\ ~result.err.isNone
               /\ result.err.items # <<>>

====
